---- MODULE Spec2Model ----
(***************************************************************************)
(* Model of app.py: the Gumroad webhook (signature check, identity         *)
(* resolution, subscription normalisation, read-merge-write of the tenant  *)
(* record, best-effort e-mail) and the subscription-gated chat endpoint.   *)
(*                                                                         *)
(* Python strings are sequences of one-character strings, so that          *)
(* strip / lower / re.sub / slicing are computed character by character.   *)
(* A dict is a function whose DOMAIN is its key set; the empty dict, the   *)
(* empty string and None (always consumed through `or`) are all <<>>.      *)
(***************************************************************************)
EXTENDS Integers, Sequences, FiniteSets, TLC

VARIABLES
  store,   \* TENANTS_DIR: tenant_id -> stored record (one JSON file each)
  clock,   \* int(time.time()), seconds since the service started
  config,  \* environment read at import: secret, api key, smtp
  resp,    \* the last request handled and the response it got
  pc,      \* concurrent deliveries: each worker's position in the handler
  loc,     \* concurrent deliveries: each worker's local variables
  order,   \* concurrent deliveries: workers in the order their write landed
  store0   \* concurrent deliveries: the store when the race began

vars == <<store, clock, config, resp, pc, loc, order, store0>>

----------------------------------------------------------------------------
\* Bounds of the exploration.

\* the clock takes the values 0..MaxClock
MaxClock == 1

\* tenant files the webhook may create during one exploration
MaxTenants == 2

----------------------------------------------------------------------------
\* Characters and the string methods the code uses.

UpperSeq == <<"A","B","C","D","E","F","G","H","I","J","K","L","M",
              "N","O","P","Q","R","S","T","U","V","W","X","Y","Z">>

LowerSeq == <<"a","b","c","d","e","f","g","h","i","j","k","l","m",
              "n","o","p","q","r","s","t","u","v","w","x","y","z">>

DigitSeq == <<"0","1","2","3","4","5","6","7","8","9">>

Range(s) == { s[i] : i \in DOMAIN s }

Uppers == Range(UpperSeq)

LowerOf == [c \in Uppers |-> LowerSeq[CHOOSE i \in DOMAIN UpperSeq : UpperSeq[i] = c]]

\* one character through str.lower()
LowerChar(c) == IF c \in Uppers THEN LowerOf[c] ELSE c

\* str.lower()
Lower(s) == [i \in DOMAIN s |-> LowerChar(s[i])]

\* the complement of the class [^a-zA-Z0-9]
Alnums == Range(UpperSeq) \cup Range(LowerSeq) \cup Range(DigitSeq)

IsAlnum(c) == c \in Alnums

\* what str.strip() removes
Spaces == {" ", "\t", "\n"}

\* what str.strip("-") removes
Hyphens == {"-"}

RECURSIVE LStrip(_, _)
LStrip(s, drop) ==
  IF s # <<>> /\ Head(s) \in drop THEN LStrip(Tail(s), drop) ELSE s

RECURSIVE RStrip(_, _)
RStrip(s, drop) ==
  IF s # <<>> /\ s[Len(s)] \in drop
    THEN RStrip(SubSeq(s, 1, Len(s) - 1), drop)
    ELSE s

\* str.strip() / str.strip("-")
Strip(s, drop) == RStrip(LStrip(s, drop), drop)

\* re.sub(r"[^a-zA-Z0-9]+", "-", s): every maximal run becomes one hyphen
RECURSIVE SubRuns(_, _)
SubRuns(s, inRun) ==
  IF s = <<>> THEN <<>>
  ELSE IF IsAlnum(Head(s)) THEN <<Head(s)>> \o SubRuns(Tail(s), FALSE)
  ELSE (IF inRun THEN <<>> ELSE <<"-">>) \o SubRuns(Tail(s), TRUE)

\* s[:n]
Prefix(s, n) == SubSeq(s, 1, IF Len(s) < n THEN Len(s) ELSE n)

\* str(int)
RECURSIVE Dec(_)
Dec(n) ==
  IF n < 10 THEN <<DigitSeq[n + 1]>>
  ELSE Dec(n \div 10) \o <<DigitSeq[(n % 10) + 1]>>

\* a or b, on strings
OrElse(a, b) == IF a # <<>> THEN a ELSE b

\* dict.get(k) consumed by `or`: a missing key and "" are both falsy
Get(d, k) == IF k \in DOMAIN d THEN d[k] ELSE <<>>

----------------------------------------------------------------------------
\* Helpers of app.py.

SlugMax == 60

sTenantDash == <<"t","e","n","a","n","t","-">>

\* the slug before the `or` fallback
SlugCore(txt) ==
  Prefix(Strip(SubRuns(Lower(Strip(txt, Spaces)), FALSE), Hyphens), SlugMax)

slugify(txt, now) == OrElse(SlugCore(txt), sTenantDash \o Dec(now))

Truthy == { <<"1">>, <<"t","r","u","e">>, <<"y","e","s">>, <<"y">>, <<"o","n">> }

boolish(v) == Lower(Strip(v, Spaces)) \in Truthy

\* str(True) / str(False)
PyStr(b) == IF b THEN <<"T","r","u","e">> ELSE <<"F","a","l","s","e">>

sFalse == <<"f","a","l","s","e">>

\* the rule with the status test made effective: paid only when Gumroad says so
ActiveRule_strict(status_text, refunded, disputed, chargeback, cancelled) ==
  LET paid_ok == status_text \in {<<"p","a","i","d">>, <<"s","u","c","c","e","s","s">>}
                 /\ ~(refunded \/ disputed \/ chargeback)
  IN  paid_ok /\ ~cancelled

ActiveRule(status_text, refunded, disputed, chargeback, cancelled) ==
  LET paid_ok == (status_text \in {<<"p","a","i","d">>,
                                   <<"s","u","c","c","e","s","s">>} \/ TRUE)
                 /\ ~(refunded \/ disputed \/ chargeback)
  IN  paid_ok /\ ~cancelled

compute_subscription_status(payload, now) ==
  LET refunded   == boolish(OrElse(Get(payload, "refunded"),
                            OrElse(Get(payload, "is_refunded"), sFalse)))
      disputed   == boolish(OrElse(Get(payload, "disputed"),
                            OrElse(Get(payload, "is_disputed"), sFalse)))
      chargeback == boolish(OrElse(Get(payload, "chargebacked"),
                            OrElse(Get(payload, "is_chargebacked"), sFalse)))
      cancelled  == boolish(OrElse(Get(payload, "cancelled"),
                            OrElse(Get(payload, "canceled"),
                            OrElse(Get(payload, "subscription_cancelled"), sFalse))))
      recurrence == Lower(OrElse(Get(payload, "recurrence"),
                                 Get(payload, "subscription_duration")))
      is_rec     == boolish(OrElse(Get(payload, "is_recurring_charge"),
                                   PyStr(recurrence # <<>>)))
      sub_id     == OrElse(Get(payload, "subscription_id"), Get(payload, "subscription"))
      order_id   == OrElse(Get(payload, "order_id"),
                    OrElse(Get(payload, "sale_id"), Get(payload, "id")))
      status     == Lower(Get(payload, "status"))
  IN  [ active          |-> ActiveRule(status, refunded, disputed, chargeback, cancelled),
        refunded        |-> refunded,
        disputed        |-> disputed,
        chargebacked    |-> chargeback,
        cancelled       |-> cancelled,
        recurrence      |-> recurrence,
        is_recurring    |-> is_rec,
        subscription_id |-> sub_id,
        order_id        |-> order_id,
        raw_status      |-> status,
        updated_at      |-> now ]

----------------------------------------------------------------------------
\* Configuration (module-level constants of app.py, read from the environment).

sBetty == <<"B","e","t","t","y">>

sClient == <<"C","l","i","e","n","t">>

sClientLower == <<"c","l","i","e","n","t">>

sSupport == <<"s","u","p","p","o","r","t">>

sKey == <<"k","1">>

sBadKey == <<"k","2">>

\* GUMROAD_WEBHOOK_SECRET unset or set; OPENAI_API_KEY unset or set;
\* SMTP_HOST/SMTP_USER/SMTP_PASS all set or not
Configs ==
  { [secret |-> <<>>, api_key |-> FALSE, smtp |-> FALSE],
    [secret |-> <<>>, api_key |-> TRUE,  smtp |-> TRUE],
    [secret |-> sKey, api_key |-> FALSE, smtp |-> TRUE] }

----------------------------------------------------------------------------
\* Storage.

\* base.update(cfg)
Update(base, cfg) ==
  [k \in DOMAIN base \cup DOMAIN cfg |-> IF k \in DOMAIN cfg THEN cfg[k] ELSE base[k]]

\* save_tenant minting an id for every call, whatever cfg carries
save_tenant_id_stamped(cfg, now) ==
  slugify(IF "email" \in DOMAIN cfg THEN cfg["email"] ELSE sClientLower, now)
    \o <<"-">> \o Dec(now)

\* the tenant_id save_tenant settles on
save_tenant_id(cfg, now) ==
  OrElse(Get(cfg, "tenant_id"),
         slugify(IF "email" \in DOMAIN cfg THEN cfg["email"] ELSE sClientLower, now)
           \o <<"-">> \o Dec(now))

\* the base save_tenant starts from: the parsed file, or {} when there is no
\* file or when read_text / json.loads raised (read_ok = FALSE)
save_tenant_base(files, tenant_id, read_ok) ==
  IF tenant_id \in DOMAIN files /\ read_ok THEN files[tenant_id] ELSE <<>>

\* the record save_tenant writes
save_tenant_merge(base, cfg, tenant_id) ==
  Update(Update(base, cfg), "tenant_id" :> tenant_id)

\* the store after save_tenant's write_text
save_tenant(files, cfg, now, read_ok) ==
  LET tenant_id == save_tenant_id(cfg, now)
  IN  (tenant_id :> save_tenant_merge(save_tenant_base(files, tenant_id, read_ok),
                                      cfg, tenant_id))
        @@ files

\* how save_tenant found the file
ReadKind(files, tenant_id, read_ok) ==
  IF tenant_id \in DOMAIN files /\ ~read_ok THEN "read_failed" ELSE "ok"

\* the outcomes the file system can give a read of this tenant's file
ReadOutcomes(files, tenant_id) ==
  IF tenant_id \in DOMAIN files THEN BOOLEAN ELSE {TRUE}

----------------------------------------------------------------------------
\* Requests the exploration sends.

eAB == <<"a","@","b">>

eAB2 == <<" ","A",".","B">>

eAt == <<"@">>

\* 61 letters, then "@z": longer than the slug may be
eLong == [i \in 1..63 |-> IF i = 62 THEN "@" ELSE IF i = 63 THEN "z" ELSE "a"]

sZZ == <<"z","z">>

P_first ==
  [ purchaser_email |-> eAB, full_name |-> <<"n","1">>, product_name |-> <<"p","1">>,
    website |-> <<"w","1">>, company |-> <<"c","1">> ]

P_renew ==
  [ purchaser_email |-> eAB, product_name |-> <<"p","2">>,
    status |-> <<"P","A","I","D">>, recurrence |-> <<"M","o">> ]

P_cancel == [ email |-> eAB2, cancelled |-> <<"1">>, subscription_id |-> <<"s","7">> ]

P_refund == [ purchaser_email |-> eAB, disputed |-> <<"y","e","s">>, is_refunded |-> <<" ","T","r","u","e">>,
              status |-> <<"p","a","i","d">> ]

P_empty == <<>>

P_at == [ purchaser_email |-> eAt ]

P_tid == [ purchaser_email |-> eAB, tenant_id |-> sZZ ]

P_long == [ purchaser_email |-> eLong, chargebacked |-> <<"o","n">> ]

P_falsy == [ purchaser_email |-> eAB, refunded |-> sFalse, canceled |-> <<"0">>,
             status |-> <<"f","a","i","l","e","d">> ]

P_custom ==
  ("custom_fields[website]" :> <<"w","2">>) @@ ("custom_fields[company]" :> <<"c","2">>)
    @@ [ purchaser_email |-> eAB, subscription_cancelled |-> <<"Y","E","S">> ]

\* the bodies delivered one request at a time
Payloads == { P_first, P_renew, P_cancel, P_refund, P_empty, P_at, P_tid,
              P_falsy, P_custom }

\* the bodies delivered concurrently
RacePayloads == { P_first, P_renew, P_cancel, P_long }

----------------------------------------------------------------------------
\* The webhook.

\* HMAC-SHA256 as a perfect MAC: equal exactly when key and body are equal
Mac(key, body) == [key |-> key, body |-> body]

\* no X-Gumroad-Signature header: request.headers.get(..., "")
NoSig == <<>>

\* the check letting a delivery without the header through
verify_gumroad_signature_lax(secret, sig, raw_body) ==
  IF secret = <<>> THEN TRUE
  ELSE sig = NoSig \/ sig = Mac(secret, raw_body)

verify_gumroad_signature(secret, sig, raw_body) ==
  IF secret = <<>> THEN TRUE
  ELSE sig # NoSig /\ sig = Mac(secret, raw_body)

\* line 182
EmailOf(data) == OrElse(Get(data, "purchaser_email"), Get(data, "email"))

\* the handler never passing a hint, so that save_tenant mints the id
tenant_id_hint_none(email, now) == <<>>

tenant_id_hint(email, now) == IF email # <<>> THEN slugify(email, now) ELSE <<>>

\* the handler taking the body's own tenant_id before the e-mail's slug
webhook_cfg_explicit(data, now) ==
  LET email == EmailOf(data)
      hint  == OrElse(Get(data, "tenant_id"),
                      IF email # <<>> THEN slugify(email, now) ELSE <<>>)
      cfg   == [ email       |-> email,
                 full_name   |-> OrElse(Get(data, "full_name"),
                                 OrElse(Get(data, "purchaser_name"), sClient)),
                 product     |-> OrElse(Get(data, "product_name"),
                                 OrElse(Get(data, "product"), sBetty)),
                 website     |-> OrElse(Get(data, "custom_fields[website]"),
                                        Get(data, "website")),
                 company     |-> OrElse(Get(data, "custom_fields[company]"),
                                        Get(data, "company")),
                 brand       |-> sBetty,
                 subscription|-> compute_subscription_status(data, now),
                 gumroad_raw |-> data ]
  IN  IF hint # <<>> THEN Update(cfg, "tenant_id" :> hint) ELSE cfg

\* the handler leaving website and company out of cfg when the body has none
webhook_cfg_sparse(data, now) ==
  LET email   == EmailOf(data)
      hint    == IF email # <<>> THEN slugify(email, now) ELSE <<>>
      website == OrElse(Get(data, "custom_fields[website]"), Get(data, "website"))
      company == OrElse(Get(data, "custom_fields[company]"), Get(data, "company"))
      cfg     == [ email       |-> email,
                   full_name   |-> OrElse(Get(data, "full_name"),
                                   OrElse(Get(data, "purchaser_name"), sClient)),
                   product     |-> OrElse(Get(data, "product_name"),
                                   OrElse(Get(data, "product"), sBetty)),
                   brand       |-> sBetty,
                   subscription|-> compute_subscription_status(data, now),
                   gumroad_raw |-> data ]
      web     == IF website # <<>> THEN "website" :> website ELSE <<>>
      comp    == IF company # <<>> THEN "company" :> company ELSE <<>>
      tid     == IF hint # <<>> THEN "tenant_id" :> hint ELSE <<>>
  IN  Update(Update(Update(cfg, web), comp), tid)

\* the cfg the handler builds from the parsed body
webhook_cfg(data, now) ==
  LET email == EmailOf(data)
      hint  == tenant_id_hint(email, now)
      cfg   == [ email       |-> email,
                 full_name   |-> OrElse(Get(data, "full_name"),
                                 OrElse(Get(data, "purchaser_name"), sClient)),
                 product     |-> OrElse(Get(data, "product_name"),
                                 OrElse(Get(data, "product"), sBetty)),
                 website     |-> OrElse(Get(data, "custom_fields[website]"),
                                        Get(data, "website")),
                 company     |-> OrElse(Get(data, "custom_fields[company]"),
                                        Get(data, "company")),
                 brand       |-> sBetty,
                 subscription|-> compute_subscription_status(data, now),
                 gumroad_raw |-> data ]
  IN  IF hint # <<>> THEN Update(cfg, "tenant_id" :> hint) ELSE cfg

\* send_email without its try/except: an SMTP error reaches the handler
send_email_raises(smtp, to_email, smtp_ok) ==
  IF ~(smtp /\ to_email # <<>>) THEN "skipped"
  ELSE IF smtp_ok THEN "sent" ELSE "raised"

\* "sent", "failed" (SMTP raised, caught inside) or "skipped" (not configured)
send_email(smtp, to_email, smtp_ok) ==
  IF ~(smtp /\ to_email # <<>>) THEN "skipped"
  ELSE IF smtp_ok THEN "sent" ELSE "failed"

NoResp ==
  [ kind |-> "none", status |-> 0, tenant_id |-> <<>>, active |-> FALSE,
    mail |-> "none", llm |-> FALSE, reply |-> "none", payload |-> <<>>,
    sig |-> NoSig, io |-> "none", prev |-> "none" ]

\* what the request before this delivery was: an accepted delivery of this very
\* body, an accepted delivery of another body with the same e-mail, or neither
PrevKind(data) ==
  IF ~(resp.kind = "webhook" /\ resp.status = 200) THEN "none"
  ELSE IF resp.payload = data THEN "same_payload"
  ELSE IF EmailOf(data) # <<>> /\ EmailOf(resp.payload) = EmailOf(data) THEN "same_email"
  ELSE "none"

\* webhook_cfg, computed once for every body and second of the exploration
CfgTable == [data \in Payloads \cup RacePayloads, now \in 0..MaxClock |-> webhook_cfg(data, now)]

CfgAt(data, now) == CfgTable[data, now]

\* header values a sender may put on a delivery of `data`
\* the bodies some sender delivers unsigned or signed with another key
BadlySigned == { P_first }

Sigs(data) ==
  {Mac(sKey, data)}
    \cup (IF data \in BadlySigned THEN {NoSig, Mac(sBadKey, data)} ELSE {})

gumroad_webhook(data, sig) ==
  LET cfg       == CfgAt(data, clock)
      tenant_id == save_tenant_id(cfg, clock)
      asked     == [NoResp EXCEPT !.kind = "webhook", !.payload = data, !.sig = sig]
  IN
  /\ tenant_id \in DOMAIN store \/ Cardinality(DOMAIN store) < MaxTenants
  /\ IF ~verify_gumroad_signature(config.secret, sig, data)
       THEN /\ resp' = [asked EXCEPT !.status = 401]
            /\ store' = store
       ELSE \E write_ok \in BOOLEAN :
         IF ~write_ok
           THEN \* write_text raised: the handler's except answers 400
                /\ resp' = [asked EXCEPT !.status = 400, !.io = "write_failed"]
                /\ store' = store
           ELSE \E read_ok \in ReadOutcomes(store, tenant_id) :
                \E smtp_ok \in (IF config.smtp THEN BOOLEAN ELSE {TRUE}) :
             LET mail == send_email(config.smtp, OrElse(cfg.email, sSupport), smtp_ok)
             IN  /\ store' = save_tenant(store, cfg, clock, read_ok)
                 /\ resp' = IF mail = "raised"
                      THEN [asked EXCEPT !.status = 400, !.mail = mail,
                                         !.io = ReadKind(store, tenant_id, read_ok)]
                      ELSE [asked EXCEPT !.status = 200, !.tenant_id = tenant_id,
                                         !.active = cfg.subscription.active,
                                         !.mail = mail,
                                         !.io = ReadKind(store, tenant_id, read_ok),
                                         !.prev = PrevKind(data)]
  /\ UNCHANGED <<clock, config, pc, loc, order, store0>>

----------------------------------------------------------------------------
\* The chat endpoint.

sNobody == <<"n","o","b","o","d","y">>

\* read_tenant: the parsed file, or {} when there is none
read_tenant(files, tenant_id) ==
  IF tenant_id \in DOMAIN files THEN files[tenant_id] ELSE <<>>

\* the endpoint without the subscription check of lines 282-284
api_chat_response_ungated(cfg, api_key, llm_ok) ==
  IF DOMAIN cfg = {} THEN [status |-> 404, llm |-> FALSE, reply |-> "error"]
  ELSE IF ~api_key THEN [status |-> 200, llm |-> FALSE, reply |-> "demo"]
  ELSE IF llm_ok THEN [status |-> 200, llm |-> TRUE, reply |-> "llm"]
  ELSE [status |-> 200, llm |-> TRUE, reply |-> "fallback"]

\* status, whether the model was called, and the kind of reply
api_chat_response(cfg, api_key, llm_ok) ==
  IF DOMAIN cfg = {} THEN [status |-> 404, llm |-> FALSE, reply |-> "error"]
  ELSE IF ~("subscription" \in DOMAIN cfg /\ "active" \in DOMAIN cfg.subscription
            /\ cfg.subscription.active)
    THEN [status |-> 402, llm |-> FALSE, reply |-> "inactive"]
  ELSE IF ~api_key THEN [status |-> 200, llm |-> FALSE, reply |-> "demo"]
  ELSE IF llm_ok THEN [status |-> 200, llm |-> TRUE, reply |-> "llm"]
  ELSE [status |-> 200, llm |-> TRUE, reply |-> "fallback"]

api_chat(tenant_id, llm_ok) ==
  LET r == api_chat_response(read_tenant(store, tenant_id), config.api_key, llm_ok)
  IN  /\ resp' = [NoResp EXCEPT !.kind = "chat", !.status = r.status,
                                !.tenant_id = tenant_id, !.llm = r.llm,
                                !.reply = r.reply]
      /\ UNCHANGED <<store, clock, config, pc, loc, order, store0>>

\* a second passes
Tick ==
  /\ clock < MaxClock
  /\ clock' = clock + 1
  /\ UNCHANGED <<store, config, resp, pc, loc, order, store0>>

----------------------------------------------------------------------------
\* One request at a time.

Workers == {1, 2}

Init ==
  /\ store = <<>>
  /\ clock = 0
  /\ config \in Configs
  /\ resp = NoResp
  /\ pc = [w \in Workers |-> "idle"]
  /\ loc = [w \in Workers |-> <<>>]
  /\ order = <<>>
  /\ store0 = <<>>

Webhook ==
  \E data \in Payloads : \E sig \in Sigs(data) :
    gumroad_webhook(data, sig)

Chat ==
  \E tenant_id \in DOMAIN store \cup {sNobody} :
    \E llm_ok \in (IF config.api_key THEN BOOLEAN ELSE {TRUE}) :
      api_chat(tenant_id, llm_ok)

Next == Webhook \/ Chat \/ Tick

Spec == Init /\ [][Next]_vars

----------------------------------------------------------------------------
\* Properties of the handlers, one request at a time (Spec).

IsWebhook == resp.kind = "webhook"

\* the last request was a delivery answered 200
Accepted == IsWebhook /\ resp.status = 200

\* the e-mail has an ASCII letter or digit, so its slug is not the clock fallback
HasSlug(email) == SlugCore(email) # <<>>

\* the body carries neither website nor company, under either key
OmitsSite(data) ==
  /\ Get(data, "custom_fields[website]") = <<>> /\ Get(data, "website") = <<>>
  /\ Get(data, "custom_fields[company]") = <<>> /\ Get(data, "company") = <<>>

\* a record without the two fields the claim sets apart
Timeless(rec) ==
  [k \in DOMAIN rec \ {"gumroad_raw"} |->
     IF k = "subscription" THEN [rec[k] EXCEPT !.updated_at = 0] ELSE rec[k]]

\* the same tenants, each with the same fields but updated_at and the raw payload
SameModuloTime(a, b) ==
  /\ DOMAIN a = DOMAIN b
  /\ \A t \in DOMAIN a : Timeless(a[t]) = Timeless(b[t])

\* C1: a chat request for a tenant whose stored record has subscription.active
\* = FALSE is answered 402 subscription-inactive, and the language model is not
\* called during that request.
C1_ChatGated ==
  (resp.kind = "chat" /\ resp.tenant_id \in DOMAIN store
     /\ ~store[resp.tenant_id].subscription.active)
  => (resp.status = 402 /\ resp.reply = "inactive" /\ ~resp.llm)

\* an inactive tenant was refused on a service whose model key is configured
C1_Witness ==
  /\ resp.kind = "chat" /\ resp.status = 402 /\ config.api_key
  /\ resp.tenant_id \in DOMAIN store
  /\ store[resp.tenant_id].subscription.cancelled

\* C2: with a secret configured, a delivery whose signature header is missing
\* or is not the MAC of the body is answered 401, leaves the store as it was
\* and sends no e-mail; with no secret configured no delivery is answered 401:
\* it is processed, and answered 200 with its record stored unless the write
\* itself failed.
C2_SignatureEnforced ==
  [][ /\ (resp'.kind = "webhook" /\ config.secret # <<>>
            /\ (resp'.sig = NoSig \/ resp'.sig # Mac(config.secret, resp'.payload)))
         => (resp'.status = 401 /\ store' = store /\ resp'.mail = "none")
      /\ (resp'.kind = "webhook" /\ config.secret = <<>>)
         => /\ resp'.status \in {200, 400}
            /\ resp'.status = 400 => resp'.io = "write_failed"
            /\ resp'.status = 200 =>
                 /\ resp'.tenant_id \in DOMAIN store'
                 /\ store'[resp'.tenant_id].gumroad_raw = resp'.payload
    ]_vars

\* an unsigned delivery was refused while the store already held a tenant
C2_Witness ==
  /\ IsWebhook /\ resp.status = 401 /\ resp.sig = NoSig
  /\ config.secret # <<>> /\ store # <<>>

\* C3 (as claimed): an accepted delivery that omits website and company, for a
\* tenant whose record was read and holds the same e-mail, leaves that record's
\* website and company as the earlier delivery wrote them.
C3_OmittedFieldsKept ==
  [][ ( /\ resp'.kind = "webhook" /\ resp'.status = 200 /\ resp'.io = "ok"
        /\ resp'.tenant_id \in DOMAIN store
        /\ store[resp'.tenant_id].email = EmailOf(resp'.payload)
        /\ OmitsSite(resp'.payload) )
      => /\ store'[resp'.tenant_id].website = store[resp'.tenant_id].website
         /\ store'[resp'.tenant_id].company = store[resp'.tenant_id].company
    ]_vars

\* C4 (as claimed): no two records hold the same non-empty e-mail.
C4_OneTenantPerEmail ==
  \A t1, t2 \in DOMAIN store :
    (store[t1].email # <<>> /\ store[t1].email = store[t2].email) => t1 = t2

\* C4 (amended): for an e-mail with at least one ASCII letter or digit, no two
\* records hold it, and an accepted delivery carrying it is answered with the
\* slug of that e-mail, which is the key and the tenant_id of the record that
\* now holds it: the id depends on the e-mail alone.
C4_OneTenantPerSluggedEmail ==
  /\ \A t1, t2 \in DOMAIN store :
       (HasSlug(store[t1].email) /\ store[t1].email = store[t2].email) => t1 = t2
  /\ (Accepted /\ HasSlug(EmailOf(resp.payload))) =>
       /\ resp.tenant_id = SlugCore(EmailOf(resp.payload))
       /\ resp.tenant_id \in DOMAIN store
       /\ store[resp.tenant_id].tenant_id = resp.tenant_id
       /\ store[resp.tenant_id].email = EmailOf(resp.payload)

\* a second delivery with the same e-mail and another product, a second later
C4_Witness ==
  /\ Accepted /\ resp.prev = "same_email" /\ resp.payload = P_renew
  /\ store[resp.tenant_id].subscription.updated_at = 1
  /\ Cardinality(DOMAIN store) = 1

\* C5 (as claimed): an accepted delivery of the body the previous accepted
\* delivery carried leaves the store as it was, up to updated_at and the raw
\* payload.
C5_Idempotent ==
  [][ (resp'.kind = "webhook" /\ resp'.status = 200 /\ resp'.prev = "same_payload")
      => SameModuloTime(store', store) ]_vars

\* C5 (amended): the same, for bodies whose e-mail has an ASCII letter or digit.
C5_IdempotentWithSlug ==
  [][ ( /\ resp'.kind = "webhook" /\ resp'.status = 200
        /\ resp'.prev = "same_payload"
        /\ HasSlug(EmailOf(resp'.payload)) )
      => SameModuloTime(store', store) ]_vars

\* the same body was accepted twice, the second time a second later
C5_Witness ==
  /\ Accepted /\ resp.prev = "same_payload" /\ resp.payload = P_first
  /\ store[resp.tenant_id].subscription.updated_at = 1

C7_ExplicitIdWins ==
  (Accepted /\ "tenant_id" \in DOMAIN resp.payload) =>
    /\ resp.tenant_id = resp.payload.tenant_id
    /\ resp.payload.tenant_id \in DOMAIN store

\* C7 (amended): a tenant_id in the body does not take part in resolving the
\* tenant: when the body also carries an e-mail with an ASCII letter or digit,
\* the delivery is merged into the record under the slug of that e-mail, that
\* slug is the id answered, and the body's tenant_id is kept only inside the
\* raw payload.
C7_BodyIdIgnored ==
  (Accepted /\ "tenant_id" \in DOMAIN resp.payload /\ HasSlug(EmailOf(resp.payload))) =>
    /\ resp.tenant_id = SlugCore(EmailOf(resp.payload))
    /\ store[resp.tenant_id].tenant_id = resp.tenant_id
    /\ store[resp.tenant_id].gumroad_raw = resp.payload
    /\ store[resp.tenant_id].gumroad_raw.tenant_id = resp.payload.tenant_id

\* a delivery naming another tenant_id than its e-mail's slug was accepted
C7_Witness ==
  /\ Accepted /\ resp.payload = P_tid
  /\ resp.payload.tenant_id # SlugCore(EmailOf(resp.payload))

\* C8: a delivery that reached the e-mail step is answered 200 with the
\* resolved tenant_id and the computed active flag, and the record merged for
\* it is in the store, whether the e-mail was sent, failed or was skipped: a
\* failed notification changes nothing of what a sent one gives.
C8_MailFailureAbsorbed ==
  (IsWebhook /\ resp.mail # "none") =>
    /\ resp.status = 200
    /\ resp.tenant_id \in DOMAIN store
    /\ store[resp.tenant_id].tenant_id = resp.tenant_id
    /\ store[resp.tenant_id].gumroad_raw = resp.payload
    /\ store[resp.tenant_id].email = EmailOf(resp.payload)
    /\ resp.active = store[resp.tenant_id].subscription.active
    /\ resp.active = compute_subscription_status(resp.payload, 0).active

\* SMTP is configured, sending raised, and the delivery was answered 200
C8_Witness ==
  /\ Accepted /\ resp.mail = "failed" /\ config.smtp
  /\ resp.tenant_id \in DOMAIN store

\* C9 (as claimed): a delivery during which the tenant file could not be read
\* or parsed, or could not be written, is answered with a failure.
C9_StorageFailureSurfaced ==
  (IsWebhook /\ resp.io \in {"read_failed", "write_failed"}) => resp.status # 200

----------------------------------------------------------------------------
\* Two deliveries handled at once (a threaded server): the handler runs as
\* its steps, and save_tenant's read, merge and write are separate steps.

\* no signature secret, so every delivery passes line 171
RaceConfig == [secret |-> <<>>, api_key |-> FALSE, smtp |-> TRUE]

\* the tenant directory when the two deliveries arrive: empty, or holding the
\* record of an earlier purchase
RaceStores == { <<>>, save_tenant(<<>>, CfgAt(P_first, 0), 0, TRUE) }

InitRace ==
  /\ store \in RaceStores
  /\ store0 = store
  /\ clock = 0
  /\ config = RaceConfig
  /\ resp = NoResp
  /\ pc = [w \in Workers |-> "idle"]
  /\ loc = [w \in Workers |-> <<>>]
  /\ order = <<>>

\* lines 170-204: signature, parsing, cfg
RBegin(w) ==
  /\ pc[w] = "idle"
  /\ \E data \in RacePayloads :
       /\ verify_gumroad_signature(config.secret, NoSig, data)
       /\ LET cfg == CfgAt(data, clock)
          IN  loc' = [loc EXCEPT ![w] =
                [ data |-> data, cfg |-> cfg, at |-> clock,
                  tenant_id |-> save_tenant_id(cfg, clock),
                  base |-> <<>>, rec |-> <<>>, early |-> FALSE, status |-> 0 ]]
  /\ pc' = [pc EXCEPT ![w] = "read"]
  /\ UNCHANGED <<store, clock, config, resp, order, store0>>

\* lines 65-71: p.exists(), read_text, json.loads
RRead(w) ==
  /\ pc[w] = "read"
  /\ \E read_ok \in ReadOutcomes(store, loc[w].tenant_id) :
       loc' = [loc EXCEPT ![w].base = save_tenant_base(store, loc[w].tenant_id, read_ok),
                          ![w].early = (order = <<>>)]
  /\ pc' = [pc EXCEPT ![w] = "merge"]
  /\ UNCHANGED <<store, clock, config, resp, order, store0>>

\* lines 72-73: base.update(cfg); base["tenant_id"] = tenant_id
RMerge(w) ==
  /\ pc[w] = "merge"
  /\ loc' = [loc EXCEPT ![w].rec =
               save_tenant_merge(loc[w].base, loc[w].cfg, loc[w].tenant_id)]
  /\ pc' = [pc EXCEPT ![w] = "write"]
  /\ UNCHANGED <<store, clock, config, resp, order, store0>>

\* line 74: write_text, which may raise (then lines 254-257 answer 400)
RWrite(w) ==
  /\ pc[w] = "write"
  /\ \E write_ok \in BOOLEAN :
       IF write_ok
         THEN /\ store' = (loc[w].tenant_id :> loc[w].rec) @@ store
              /\ order' = Append(order, w)
              /\ pc' = [pc EXCEPT ![w] = "notify"]
              /\ loc' = loc
         ELSE /\ pc' = [pc EXCEPT ![w] = "done"]
              /\ loc' = [loc EXCEPT ![w].status = 400]
              /\ UNCHANGED <<store, order>>
  /\ UNCHANGED <<clock, config, resp, store0>>

\* lines 208-252: the e-mail (never fatal) and the 200 response
RRespond(w) ==
  /\ pc[w] = "notify"
  /\ \E smtp_ok \in BOOLEAN :
       loc' = [loc EXCEPT ![w].status =
         IF send_email(config.smtp, OrElse(loc[w].cfg.email, sSupport), smtp_ok) = "raised"
           THEN 400 ELSE 200]
  /\ pc' = [pc EXCEPT ![w] = "done"]
  /\ UNCHANGED <<store, clock, config, resp, order, store0>>

NextRace ==
  \/ \E w \in Workers : RBegin(w)
  \/ \E w \in Workers : RRead(w)
  \/ \E w \in Workers : RMerge(w)
  \/ \E w \in Workers : RWrite(w)
  \/ \E w \in Workers : RRespond(w)
  \/ Tick

SpecRace == InitRace /\ [][NextRace]_vars

\* the store had the two deliveries run one after the other, a then b
Serial(a, b) ==
  save_tenant(save_tenant(store0, loc[a].cfg, loc[a].at, TRUE),
              loc[b].cfg, loc[b].at, TRUE)

\* both deliveries answered 200 for the same tenant
RaceOver ==
  /\ \A w \in Workers : pc[w] = "done" /\ loc[w].status = 200
  /\ loc[1].tenant_id = loc[2].tenant_id

\* both deliveries read the file before either wrote it
RaceStale == \A w \in Workers : loc[w].early

====
